---- MODULE Spec2Model ----
(***************************************************************************)
(* Model of src/scraper.py: the scrape -> filter -> aggregate -> tabulate  *)
(* pipeline (fetch_listings, parse_listing, is_valid_title, process_price, *)
(* scrape_ebay_for_term, main).                                            *)
(*                                                                         *)
(* Python strings are sequences of one-character strings.  Floats are      *)
(* exact rationals; a price or an average that was rounded by              *)
(* round(x, 2) is an integer number of cents.                              *)
(***************************************************************************)
EXTENDS Integers, Sequences, FiniteSets, TLC

VARIABLES
    inputExists,       \* os.path.exists("search_terms.csv")
    terms,             \* the non-blank search terms read so far, in order
    outFile,           \* Average_Prices_By_Day.csv on disk
    pc,                \* position of main()
    rowsRead,          \* number of records the reader has yielded
    search_term,       \* main: search_term
    page_number,       \* scrape_ebay_for_term: page_number
    listings_section,  \* scrape_ebay_for_term: what fetch_listings returned
    remaining,         \* listing nodes of the current page not yet iterated
    month_price_dict,  \* main: month_price_dict (date -> list of prices)
    summary_data,      \* main: summary_data, in insertion order
    requested,         \* pages requested so far for the current term
    exc,               \* exception raised by the last step ("none" if none)
    nAdmitted,         \* number of prices appended during the run
    u_title,           \* unit run of is_valid_title: the raw title
    u_term,            \* unit run of is_valid_title: the raw search term
    u_out,             \* unit run of is_valid_title: the result
    u_pc               \* unit run of is_valid_title: "call" or "returned"

vars == <<inputExists, terms, outFile, pc, rowsRead, search_term, page_number,
          listings_section, remaining, month_price_dict, summary_data, requested, exc,
          nAdmitted, u_title, u_term, u_out, u_pc>>

mainVars == <<inputExists, terms, outFile, pc, rowsRead, search_term,
              page_number, listings_section, remaining, month_price_dict, summary_data,
              requested, exc, nAdmitted>>

unitVars == <<u_title, u_term, u_out, u_pc>>

----------------------------------------------------------------------------
(* Bounds of the model *)

MaxRows == 2          \* records in the input file
MaxListings == 2      \* listing nodes on one results page
MaxObs == 2           \* prices appended during one run
MaxTitleLen == 4      \* characters of a title in the unit run
MaxTermLen == 3       \* characters of a term in the unit run

(* Program constants *)

LastPage == 13        \* range(1, 14)
LowPrice == 10        \* 10 < price_value
HighPrice == 900      \* price_value < 900

----------------------------------------------------------------------------
(* Python str operations *)

Range(s) == {s[i] : i \in 1..Len(s)}

\* Code-point order of the characters that occur in the model.
Alphabet ==
    <<" ", "$", ",", ".", "0", "1", "2", "3", "4", "5", "6", "7", "8", "9",
      "C", "F", "J", "N", "P", "R", "S", "U",
      "a", "b", "d", "e", "f", "l", "m", "n", "o", "r", "t", "x">>

Ord(c) == CHOOSE i \in 1..Len(Alphabet) : Alphabet[i] = c

IsSpace(c) == c = " "

\* str.lower
LowerChar(c) ==
    CASE c = "C" -> "c" [] c = "F" -> "f" [] c = "J" -> "j" [] c = "N" -> "n"
      [] c = "P" -> "p" [] c = "R" -> "r" [] c = "S" -> "s" [] c = "U" -> "u"
      [] OTHER -> c

Lower(s) == [i \in 1..Len(s) |-> LowerChar(s[i])]

\* str.strip
RECURSIVE LStrip(_)
LStrip(s) == IF s # <<>> /\ IsSpace(Head(s)) THEN LStrip(Tail(s)) ELSE s

RECURSIVE RStrip(_)
RStrip(s) ==
    IF s # <<>> /\ IsSpace(s[Len(s)]) THEN RStrip(SubSeq(s, 1, Len(s) - 1))
    ELSE s

Strip(s) == RStrip(LStrip(s))

\* s.startswith(p)
StartsWith(s, p) == Len(p) <= Len(s) /\ SubSeq(s, 1, Len(p)) = p

\* p in s
Contains(s, p) ==
    \E i \in 1..(Len(s) - Len(p) + 1) : SubSeq(s, i, i + Len(p) - 1) = p

\* s.replace(old, ""), old non-empty
RECURSIVE Remove(_, _)
Remove(s, old) ==
    IF s = <<>> THEN <<>>
    ELSE IF StartsWith(s, old)
         THEN Remove(SubSeq(s, Len(old) + 1, Len(s)), old)
         ELSE <<Head(s)>> \o Remove(Tail(s), old)

\* The first whitespace-delimited word of s (s has no leading whitespace).
RECURSIVE FirstWord(_)
FirstWord(s) ==
    IF s = <<>> \/ IsSpace(Head(s)) THEN <<>>
    ELSE <<Head(s)>> \o FirstWord(Tail(s))

\* str.split() with no argument: the whitespace-delimited words of s
RECURSIVE Split(_)
Split(s) ==
    LET t == LStrip(s)
        w == FirstWord(t)
    IN IF t = <<>> THEN <<>>
       ELSE <<w>> \o Split(SubSeq(t, Len(w) + 1, Len(t)))

\* s1 < s2 on str: lexicographic order by code point
RECURSIVE LexLess(_, _)
LexLess(a, b) ==
    IF b = <<>> THEN FALSE
    ELSE IF a = <<>> THEN TRUE
    ELSE IF Head(a) # Head(b) THEN Ord(Head(a)) < Ord(Head(b))
    ELSE LexLess(Tail(a), Tail(b))

\* sorted(S, reverse=True)
RECURSIVE SortedDescending(_)
SortedDescending(S) ==
    IF S = {} THEN <<>>
    ELSE LET m == CHOOSE x \in S : \A y \in S \ {x} : LexLess(y, x)
         IN <<m>> \o SortedDescending(S \ {m})

\* sorted(S) for a set S of str
RECURSIVE Sorted(_)
Sorted(S) ==
    IF S = {} THEN <<>>
    ELSE LET m == CHOOSE x \in S : \A y \in S \ {x} : LexLess(x, y)
         IN <<m>> \o Sorted(S \ {m})

----------------------------------------------------------------------------
(* Python float operations, on exact rationals [num, den] *)

Digits == <<"0", "1", "2", "3", "4", "5", "6", "7", "8", "9">>

IsDigit(c) == \E i \in 1..10 : Digits[i] = c

DigitVal(c) == (CHOOSE i \in 1..10 : Digits[i] = c) - 1

RECURSIVE Pow10(_)
Pow10(n) == IF n = 0 THEN 1 ELSE 10 * Pow10(n - 1)

RECURSIVE DigitsVal(_)
DigitsVal(s) ==
    IF s = <<>> THEN 0
    ELSE 10 * DigitsVal(SubSeq(s, 1, Len(s) - 1)) + DigitVal(s[Len(s)])

ValueError == [ok |-> FALSE, num |-> 0, den |-> 1]

\* float(s) for s over the model's alphabet: surrounding whitespace is
\* ignored, then decimal digits with at most one point and at least one
\* digit; anything else raises ValueError.
Float(s) ==
    LET t == Strip(s)
        dots == {i \in 1..Len(t) : t[i] = "."}
        nodot == Remove(t, <<".">>)
        frac == IF dots = {} THEN 0
                ELSE Len(t) - (CHOOSE i \in dots : TRUE)
    IN IF /\ nodot # <<>>
          /\ Cardinality(dots) <= 1
          /\ \A i \in 1..Len(nodot) : IsDigit(nodot[i])
       THEN [ok |-> TRUE, num |-> DigitsVal(nodot), den |-> Pow10(frac)]
       ELSE ValueError

\* round(num/den, 2), in cents.  The float nearest to an exact decimal tie
\* lies on either side of it, so a tie rounds to either neighbour.
Round2(num, den) ==
    LET q == (100 * num) \div den
        r == (100 * num) % den
    IN IF 2 * r < den THEN {q}
       ELSE IF 2 * r > den THEN {q + 1}
       ELSE {q, q + 1}

\* repr(c/100) of a rounded value, as csv.writer writes a float
RECURSIVE NatStr(_)
NatStr(n) ==
    IF n < 10 THEN <<Digits[n + 1]>>
    ELSE NatStr(n \div 10) \o <<Digits[(n % 10) + 1]>>

FloatStr(c) ==
    LET d == c \div 100
        f == c % 100
    IN NatStr(d) \o <<".">> \o
       (IF f % 10 = 0 THEN NatStr(f \div 10)
        ELSE <<Digits[(f \div 10) + 1], Digits[(f % 10) + 1]>>)

----------------------------------------------------------------------------
(* Inputs: the texts the marketplace and the input file can hold *)

Node(text) == [found |-> TRUE, text |-> text]

\* item.find(...) found no node
NoNode == [found |-> FALSE, text |-> <<>>]

TitleTexts == { <<"R", " ", "5">>, <<"r", "5", " ", "x">> }

PriceTexts ==
    { <<"$", "1", "0", ".", "0", "0">>,
      <<"$", "1", "0", ".", "0", "1">>,
      <<"$", "1", "0", ".", "0", "0", " ", "t", "o", " ",
        "$", "1", "0", ".", "0", "4">>,
      <<"$", "9", "0", "0", ".", "0", "0">>,
      <<"f", "r", "e", "e">> }

DateTexts ==
    { <<"S", "o", "l", "d", " ", "F", "e", "b", " ", "1", ",", " ",
        "2", "0", "2", "4">>,
      <<"S", "o", "l", "d", " ", "J", "a", "n", " ", "9", ",", " ",
        "2", "0", "2", "4">> }

LinkTexts == { <<"l">> }

SomeTitle == Node(CHOOSE t \in TitleTexts : TRUE)
SomePrice == Node(CHOOSE t \in PriceTexts : TRUE)
SomeDate == Node(CHOOSE t \in DateTexts : TRUE)
SomeLink == Node(CHOOSE t \in LinkTexts : TRUE)

\* the sub-nodes of one <li class="s-item s-item__pl-on-bottom">: all four
\* present, or one of them missing
Complete ==
    {[title |-> Node(t), price |-> Node(p), date |-> Node(d), link |-> Node(l)] :
        t \in TitleTexts, p \in PriceTexts, d \in DateTexts, l \in LinkTexts}

Incomplete ==
    { [title |-> NoNode, price |-> SomePrice, date |-> SomeDate, link |-> SomeLink],
      [title |-> SomeTitle, price |-> NoNode, date |-> SomeDate, link |-> SomeLink],
      [title |-> SomeTitle, price |-> SomePrice, date |-> NoNode, link |-> SomeLink],
      [title |-> SomeTitle, price |-> SomePrice, date |-> SomeDate, link |-> NoNode] }

Listings == Complete \cup Incomplete

\* the records csv.reader can yield: a list of columns
RowTexts ==
    { <<>>,
      << <<" ">> >>,
      << <<"r", " ", "5">> >>,
      << <<" ", "R", "5">> >> }

NoFile == [exists |-> FALSE, header |-> <<>>, rows |-> <<>>]

\* a table left by an earlier run
OldFile == [exists |-> TRUE, header |-> << <<"o", "l", "d">> >>, rows |-> <<>>]

----------------------------------------------------------------------------
(* The functions of scraper.py *)

\* parse_listing: the exception a missing node raises, or the fields.
\* The link and the condition are not used by the caller.
parse_listing(item) ==
    IF ~item.title.found THEN [exc |-> "AttributeError"]
    ELSE IF ~item.price.found THEN [exc |-> "AttributeError"]
    ELSE IF ~item.date.found THEN [exc |-> "AttributeError"]
    ELSE IF ~item.link.found THEN [exc |-> "TypeError"]
    ELSE [exc |-> "none",
          title |-> Lower(item.title.text),
          price |-> item.price.text,
          date |-> Strip(Remove(item.date.text, <<"S", "o", "l", "d">>))]

\* keyword not in title: a substring test on the whole title
is_valid_title_substring(title, search_keywords) ==
    \A i \in 1..Len(search_keywords) : Contains(title, search_keywords[i])

is_valid_title(title, search_keywords) ==
    LET title_words == Split(title)
    IN \A i \in 1..Len(search_keywords) :
          search_keywords[i] \in Range(title_words)

\* sum of a sequence of rationals
RECURSIVE SumRat(_)
SumRat(fs) ==
    IF fs = <<>> THEN [num |-> 0, den |-> 1]
    ELSE LET rest == SumRat(Tail(fs))
         IN [num |-> Head(fs).num * rest.den + rest.num * Head(fs).den,
             den |-> Head(fs).den * rest.den]

NotTo(w) == w # <<"t", "o">>

\* process_price: the set of results round() can give; ok = FALSE is a
\* ValueError raised by float().
process_price(price) ==
    LET p == Remove(Remove(price, <<"$">>), <<",">>)
        nums == SelectSeq(Split(p), NotTo)
        fs == [i \in 1..Len(nums) |-> Float(nums[i])]
        total == SumRat(fs)
        single == Float(p)
    IN IF Contains(p, <<"t", "o">>)
       THEN IF \E i \in 1..Len(fs) : ~fs[i].ok
            THEN {[ok |-> FALSE, cents |-> 0]}
            ELSE {[ok |-> TRUE, cents |-> c] : c \in Round2(total.num, 2 * total.den)}
       ELSE IF ~single.ok
            THEN {[ok |-> FALSE, cents |-> 0]}
            ELSE {[ok |-> TRUE, cents |-> c] : c \in Round2(single.num, single.den)}

\* 10 <= price_value <= 900
PriceAdmittedClosed(cents) == LowPrice * 100 <= cents /\ cents <= HighPrice * 100

\* 10 < price_value < 900
PriceAdmitted(cents) == LowPrice * 100 < cents /\ cents < HighPrice * 100

\* month_price_dict[date].append(price_value), creating the list if absent
AppendPrice(dict, date, cents) ==
    IF date \in DOMAIN dict
    THEN [dict EXCEPT ![date] = Append(@, cents)]
    ELSE [d \in DOMAIN dict \cup {date} |->
             IF d = date THEN <<cents>> ELSE dict[d]]

RECURSIVE SumSeq(_)
SumSeq(s) == IF s = <<>> THEN 0 ELSE Head(s) + SumSeq(Tail(s))

\* {date: round(sum(prices), 2) for ...}
DailyTotals(dict) == {[d \in DOMAIN dict |-> SumSeq(dict[d])]}

\* {date: round(sum(prices) / len(prices), 2) for ...}: the possible results
DailyAverages(dict) ==
    LET cand(d) == Round2(SumSeq(dict[d]), 100 * Len(dict[d]))
    IN {f \in [DOMAIN dict -> UNION {cand(d) : d \in DOMAIN dict}] :
           \A d \in DOMAIN dict : f[d] \in cand(d)}

\* summary_data.append((key, val)) on a list
DictAppend(data, key, val) == Append(data, [key |-> key, val |-> val])

\* summary_data[key] = val on a dict kept in insertion order
DictSet(data, key, val) ==
    IF \E i \in 1..Len(data) : data[i].key = key
    THEN [i \in 1..Len(data) |->
             IF data[i].key = key THEN [key |-> key, val |-> val] ELSE data[i]]
    ELSE Append(data, [key |-> key, val |-> val])

\* sorted({date for averages in summary_data.values() for date in averages})
AllDates(data) == Sorted(UNION {DOMAIN data[i].val : i \in 1..Len(data)})

CpuName == <<"C", "P", "U", " ", "N", "a", "m", "e">>

\* the header and the rows main() writes
Table(data) ==
    LET all_dates == AllDates(data)
    IN [exists |-> TRUE,
        header |-> <<CpuName>> \o all_dates,
        rows |-> [i \in 1..Len(data) |->
                    <<data[i].key>> \o
                    [j \in 1..Len(all_dates) |->
                        IF all_dates[j] \in DOMAIN data[i].val
                        THEN FloatStr(data[i].val[all_dates[j]])
                        ELSE <<>>]]]

EmptyDict == [d \in {} |-> <<>>]

\* The terms main() can pass on, and the calls scrape_ebay_for_term makes,
\* tabulated over the inputs of the model.
Terms == {Strip(r[1]) : r \in RowTexts \ {<<>>}} \ {<<>>}

\* parse_listing(item)
Parsed == [item \in Listings |-> parse_listing(item)]

\* process_price(price)
Prices == [p \in PriceTexts |-> process_price(p)]

\* is_valid_title(title, search_keywords), with
\* search_keywords = search_term.lower().split()
TitleOk ==
    [t \in {Lower(x) : x \in TitleTexts}, term \in Terms |->
        is_valid_title(t, Split(Lower(term)))]

----------------------------------------------------------------------------
(* main() and scrape_ebay_for_term() *)

\* for page_number in range(1, 14): the position after page p
NextPage(p) ==
    IF p < LastPage THEN [pc |-> "fetch", page |-> p + 1]
    ELSE [pc |-> "finalize", page |-> p]

\* if not listings_section: break
SkipPageBreak(p) == [pc |-> "finalize", page |-> p]

\* if not listings_section: continue
SkipPage(p) == NextPage(p)

UnitIdle ==
    /\ u_title = <<>>
    /\ u_term = <<>>
    /\ u_out = FALSE
    /\ u_pc = "off"

Init ==
    /\ inputExists \in BOOLEAN
    \* main never reads the output file and opens it with "w": a table left
    \* by an earlier run matters only to a run that does not write
    /\ outFile \in IF inputExists THEN {NoFile} ELSE {NoFile, OldFile}
    /\ pc = "start"
    /\ terms = <<>>
    /\ rowsRead = 0
    /\ search_term = <<>>
    /\ page_number = 0
    /\ listings_section = "unset"
    /\ remaining = 0
    /\ month_price_dict = EmptyDict
    /\ summary_data = <<>>
    /\ requested = <<>>
    /\ exc = "none"
    /\ nAdmitted = 0
    /\ UnitIdle

\* main without the os.path.exists test
StartUnchecked ==
    /\ pc = "start"
    /\ pc' = "read"
    /\ UNCHANGED <<inputExists, terms, outFile, rowsRead, search_term,
                   page_number, listings_section, remaining,
                   month_price_dict, summary_data, requested, exc, nAdmitted>>

\* main, lines 70-78: the input file is looked up
Start ==
    /\ pc = "start"
    /\ \/ /\ ~inputExists
          /\ pc' = "failed"
       \/ /\ inputExists
          /\ pc' = "read"
    /\ UNCHANGED <<inputExists, terms, outFile, rowsRead, search_term,
                   page_number, listings_section, remaining,
                   month_price_dict, summary_data, requested, exc, nAdmitted>>

\* main, lines 83-89: the reader is exhausted, or yields its next record,
\* which is skipped when it is empty or its first column is blank
ReadRow ==
    /\ pc = "read"
    /\ exc' = "none"
    /\ \/ /\ pc' = "write"
          /\ UNCHANGED <<rowsRead, terms, search_term, page_number,
                         month_price_dict, requested>>
       \/ /\ rowsRead < MaxRows
          /\ rowsRead' = rowsRead + 1
          /\ \E row \in RowTexts :
               \/ /\ \/ row = <<>>
                     \/ /\ row # <<>>
                        /\ Strip(row[1]) = <<>>
                  /\ UNCHANGED <<pc, terms, search_term, page_number,
                                 month_price_dict, requested>>
               \/ /\ row # <<>>
                  /\ Strip(row[1]) # <<>>
                  /\ search_term' = Strip(row[1])
                  /\ terms' = Append(terms, Strip(row[1]))
                  /\ month_price_dict' = EmptyDict
                  /\ page_number' = 1
                  /\ requested' = <<>>
                  /\ pc' = "fetch"
    /\ UNCHANGED <<inputExists, outFile, listings_section, remaining,
                   summary_data, nAdmitted>>

\* scrape_ebay_for_term, lines 49-54: one page is requested.  requests.get
\* raises outside any try; a document without the results container gives
\* None; otherwise find_all gives the listing nodes.
FetchPage ==
    /\ pc = "fetch"
    /\ requested' = Append(requested, page_number)
    /\ \/ /\ exc' = "ConnectionError"
          /\ pc' = "crashed"
          /\ UNCHANGED <<page_number, listings_section, remaining>>
       \/ /\ exc' = "none"
          /\ listings_section' = "None"
          /\ pc' = SkipPage(page_number).pc
          /\ page_number' = SkipPage(page_number).page
          /\ UNCHANGED remaining
       \/ /\ exc' = "none"
          /\ listings_section' = "Tag"
          /\ pc' = NextPage(page_number).pc
          /\ page_number' = NextPage(page_number).page
          /\ UNCHANGED remaining
       \/ /\ exc' = "none"
          /\ listings_section' = "Tag"
          /\ \E n \in 1..MaxListings : remaining' = n
          /\ pc' = "items"
          /\ UNCHANGED page_number
    /\ UNCHANGED <<inputExists, terms, outFile, rowsRead, search_term,
                   month_price_dict, summary_data, nAdmitted>>

\* the for loop moves to the next listing node, or to the next page
ListingDone ==
    /\ remaining' = remaining - 1
    /\ IF remaining = 1
       THEN /\ pc' = NextPage(page_number).pc
            /\ page_number' = NextPage(page_number).page
       ELSE UNCHANGED <<pc, page_number>>

\* no except clause: the ValueError leaves scrape_ebay_for_term
UncaughtValueError ==
    /\ exc' = "ValueError"
    /\ pc' = "crashed"
    /\ UNCHANGED <<page_number, remaining, month_price_dict, nAdmitted>>

\* except ValueError: continue
CaughtValueError ==
    /\ exc' = "ValueError"
    /\ ListingDone
    /\ UNCHANGED <<month_price_dict, nAdmitted>>

\* scrape_ebay_for_term, lines 55-66: one listing node
ProcessListing ==
    /\ pc = "items"
    /\ \E item \in Listings :
         LET r == Parsed[item]
         IN \/ /\ r.exc # "none"
               /\ exc' = r.exc
               /\ pc' = "crashed"
               /\ UNCHANGED <<page_number, remaining, month_price_dict,
                              nAdmitted>>
            \/ /\ r.exc = "none"
               /\ ~TitleOk[r.title, search_term]
               /\ exc' = "none"
               /\ ListingDone
               /\ UNCHANGED <<month_price_dict, nAdmitted>>
            \/ /\ r.exc = "none"
               /\ TitleOk[r.title, search_term]
               /\ \E pv \in Prices[r.price] :
                    \/ /\ ~pv.ok
                       /\ CaughtValueError
                    \/ /\ pv.ok
                       /\ ~PriceAdmitted(pv.cents)
                       /\ exc' = "none"
                       /\ ListingDone
                       /\ UNCHANGED <<month_price_dict, nAdmitted>>
                    \/ /\ pv.ok
                       /\ PriceAdmitted(pv.cents)
                       /\ nAdmitted < MaxObs  \* bound of the model
                       /\ exc' = "none"
                       /\ month_price_dict' =
                              AppendPrice(month_price_dict, r.date, pv.cents)
                       /\ nAdmitted' = nAdmitted + 1
                       /\ ListingDone
    /\ UNCHANGED <<inputExists, terms, outFile, rowsRead, search_term,
                   listings_section, summary_data, requested>>

\* main, lines 91-96: the term's averages are stored under the term
FinishTerm ==
    /\ pc = "finalize"
    /\ \E daily_averages \in DailyAverages(month_price_dict) :
         summary_data' = DictSet(summary_data, search_term, daily_averages)
    /\ pc' = "read"
    /\ exc' = "none"
    /\ UNCHANGED <<inputExists, terms, outFile, rowsRead, search_term,
                   page_number, listings_section, remaining, month_price_dict,
                   requested, nAdmitted>>

\* main, lines 98-112: the table is written
WriteTable ==
    /\ pc = "write"
    /\ outFile' = Table(summary_data)
    /\ pc' = "done"
    /\ UNCHANGED <<inputExists, terms, rowsRead, search_term, page_number,
                   listings_section, remaining, month_price_dict,
                   summary_data, requested, exc, nAdmitted>>

Next ==
    \/ Start /\ UNCHANGED unitVars
    \/ ReadRow /\ UNCHANGED unitVars
    \/ FetchPage /\ UNCHANGED unitVars
    \/ ProcessListing /\ UNCHANGED unitVars
    \/ FinishTerm /\ UNCHANGED unitVars
    \/ WriteTable /\ UNCHANGED unitVars

Spec == Init /\ [][Next]_vars

----------------------------------------------------------------------------
(* Unit run of is_valid_title, as scrape_ebay_for_term calls it: the title *)
(* lower-cased by parse_listing, the keywords from search_term.lower()     *)
(* .split().                                                               *)

TitleChars == {"r", "R", "5", " "}

RECURSIVE SeqsUpTo(_, _)
SeqsUpTo(S, n) ==
    IF n = 0 THEN {<<>>}
    ELSE LET shorter == SeqsUpTo(S, n - 1)
         IN shorter \cup {Append(q, x) : q \in {r \in shorter : Len(r) = n - 1},
                                          x \in S}

MainOff ==
    /\ inputExists = FALSE
    /\ outFile = NoFile
    /\ pc = "off"
    /\ terms = <<>>
    /\ rowsRead = 0
    /\ search_term = <<>>
    /\ page_number = 0
    /\ listings_section = "unset"
    /\ remaining = 0
    /\ month_price_dict = EmptyDict
    /\ summary_data = <<>>
    /\ requested = <<>>
    /\ exc = "none"
    /\ nAdmitted = 0

\* main passes on a stripped, non-empty term
TitleInit ==
    /\ MainOff
    /\ u_title \in SeqsUpTo(TitleChars, MaxTitleLen)
    /\ u_term \in {t \in SeqsUpTo(TitleChars, MaxTermLen) :
                     t # <<>> /\ Strip(t) = t}
    /\ u_out = FALSE
    /\ u_pc = "call"

ValidateTitle ==
    /\ u_pc = "call"
    /\ u_out' = is_valid_title(Lower(u_title), Split(Lower(u_term)))
    /\ u_pc' = "returned"
    /\ UNCHANGED <<u_title, u_term>>
    /\ UNCHANGED mainVars

SpecTitle == TitleInit /\ [][ValidateTitle]_vars

----------------------------------------------------------------------------
(* Definitions the properties use *)

Abs(x) == IF x < 0 THEN -x ELSE x

\* the value stored under key in a dict kept in insertion order
Entry(data, key) == data[CHOOSE i \in 1..Len(data) : data[i].key = key].val

\* the elements of a sequence in the order of their first occurrence
RECURSIVE FirstOccurrences(_)
FirstOccurrences(q) ==
    IF q = <<>> THEN <<>>
    ELSE LET init == FirstOccurrences(SubSeq(q, 1, Len(q) - 1))
             last == q[Len(q)]
         IN IF last \in Range(init) THEN init ELSE Append(init, last)

\* the calendar date a date key "Mon D, YYYY" denotes, as YYYYMMDD
MonthNum(m) ==
    CASE m = <<"J", "a", "n">> -> 1
      [] m = <<"F", "e", "b">> -> 2
      [] OTHER -> 0

CalendarDate(key) ==
    LET w == Split(Remove(key, <<",">>))
    IN DigitsVal(w[3]) * 10000 + MonthNum(w[1]) * 100 + DigitsVal(w[2])

\* the maximal runs of non-whitespace characters of s, by position
Tokens(s) ==
    {SubSeq(s, x[1], x[2]) : x \in
        {y \in (1..Len(s)) \X (1..Len(s)) :
            /\ y[1] <= y[2]
            /\ \A k \in y[1]..y[2] : ~IsSpace(s[k])
            /\ y[1] = 1 \/ IsSpace(s[y[1] - 1])
            /\ y[2] = Len(s) \/ IsSpace(s[y[2] + 1])}}

DateColumns == Tail(outFile.header)

StoredDates == UNION {DOMAIN summary_data[i].val : i \in 1..Len(summary_data)}

Written == pc = "done"

----------------------------------------------------------------------------
(* Properties *)

\* C1: every price in the term's per-date accumulator, and every average
\* stored from it, is strictly between 10 and 900.
C1_PricesInRange ==
    /\ \A d \in DOMAIN month_price_dict :
          \A i \in 1..Len(month_price_dict[d]) :
             /\ month_price_dict[d][i] > LowPrice * 100
             /\ month_price_dict[d][i] < HighPrice * 100
    /\ \A i \in 1..Len(summary_data) :
          \A d \in DOMAIN summary_data[i].val :
             /\ summary_data[i].val[d] > LowPrice * 100
             /\ summary_data[i].val[d] < HighPrice * 100

C1_Witness ==
    \E d \in DOMAIN month_price_dict :
       month_price_dict[d][1] = LowPrice * 100 + 1

\* C2: a page whose fetch fails counts as zero listings and the run goes
\* on: the failure never ends the run.
C2_FetchFailureIsolated == exc = "ConnectionError" => pc # "crashed"

\* C3: a listing node that lacks a required field is skipped and the run
\* goes on: the missing field never ends the run.
C3_MissingFieldSkipped ==
    exc \in {"AttributeError", "TypeError"} => pc # "crashed"

\* C4 (as stated): the date columns of the written table are the union of
\* the terms' date keys, each once, in ascending calendar order.
C4_Chronological ==
    Written =>
       /\ Range(DateColumns) = StoredDates
       /\ \A i, j \in 1..Len(DateColumns) :
             i < j => CalendarDate(DateColumns[i]) < CalendarDate(DateColumns[j])

\* C4 (amended): the date columns of the written table are the union of
\* the terms' date keys, each once, in ascending code-point order of the
\* date text.
C4_Lexicographic ==
    Written =>
       /\ Range(DateColumns) = StoredDates
       /\ \A i, j \in 1..Len(DateColumns) :
             i < j => LexLess(DateColumns[i], DateColumns[j])

C4_Witness == Written /\ Len(DateColumns) = 2

\* C5 (as stated): the written table has one row per input term, in input
\* order, also when a term occurs more than once.
C5_RowPerTerm ==
    Written =>
       /\ Len(outFile.rows) = Len(terms)
       /\ \A i \in 1..Len(terms) : outFile.rows[i][1] = terms[i]

\* C5 (amended): the written table has one row per distinct input term, in
\* the order of the terms' first occurrences.
C5_RowPerDistinctTerm ==
    Written =>
       [i \in 1..Len(outFile.rows) |-> outFile.rows[i][1]] =
          FirstOccurrences(terms)

C5_Witness == Written /\ Len(terms) = 2 /\ terms[1] = terms[2]

\* the cells of the written table are the stored averages, blank where a
\* term has none; every term has a full row
CellsAreStored ==
    Written =>
       /\ Len(outFile.rows) = Len(summary_data)
       /\ \A i \in 1..Len(outFile.rows) :
             /\ Len(outFile.rows[i]) = Len(outFile.header)
             /\ \A j \in 1..Len(DateColumns) :
                   LET cell == outFile.rows[i][j + 1]
                       avgs == summary_data[i].val
                   IN IF DateColumns[j] \in DOMAIN avgs
                      THEN /\ Float(cell).ok
                           /\ Float(cell).num * 100 =
                                 avgs[DateColumns[j]] * Float(cell).den
                      ELSE cell = <<>>

TermFinished == pc \in {"read", "write", "done"} /\ terms # <<>>

\* C6 (as stated): a cell holds the mean of the prices admitted for its
\* term on its date, and is blank when there is none.
C6_ExactMean ==
    /\ CellsAreStored
    /\ TermFinished =>
          LET avgs == Entry(summary_data, search_term)
          IN /\ DOMAIN avgs = DOMAIN month_price_dict
             /\ \A d \in DOMAIN avgs :
                   Len(month_price_dict[d]) * avgs[d] =
                      SumSeq(month_price_dict[d])

\* C6 (amended): a cell holds the mean of the prices admitted for its term
\* on its date rounded to two decimals (a value within half a cent of the
\* mean), and is blank when there is none.
C6_RoundedMean ==
    /\ CellsAreStored
    /\ TermFinished =>
          LET avgs == Entry(summary_data, search_term)
          IN /\ DOMAIN avgs = DOMAIN month_price_dict
             /\ \A d \in DOMAIN avgs :
                   2 * Abs(Len(month_price_dict[d]) * avgs[d] -
                           SumSeq(month_price_dict[d]))
                      <= Len(month_price_dict[d])

C6_Witness ==
    /\ Written
    /\ Len(outFile.rows) = 2
    /\ \E d \in DOMAIN month_price_dict : Len(month_price_dict[d]) = 2
    /\ \E j \in 2..Len(outFile.header) : outFile.rows[1][j] = <<>>

\* C7: with the input file missing the run stops with the reported failure
\* before any term is read or page requested, and the output file is left
\* as it was.
C7_MissingInput ==
    ~inputExists =>
       /\ pc \in {"start", "failed"}
       /\ outFile \in {NoFile, OldFile}
       /\ terms = <<>>
       /\ rowsRead = 0
       /\ requested = <<>>
       /\ summary_data = <<>>

C7_Witness == pc = "failed" /\ outFile = OldFile

\* C8: a listing whose price text float() rejects is added to no list and
\* counted in no average, and the loop goes on with the next listing, or
\* with the next page after the last listing of the page.
C8_BadPriceDropped ==
    [][(pc = "items" /\ exc' = "ValueError") =>
          /\ month_price_dict' = month_price_dict
          /\ summary_data' = summary_data
          /\ nAdmitted' = nAdmitted
          /\ remaining' = remaining - 1
          /\ remaining > 1 => (pc' = "items" /\ page_number' = page_number)
          /\ (remaining = 1 /\ page_number < LastPage) =>
                (pc' = "fetch" /\ page_number' = page_number + 1)
          /\ (remaining = 1 /\ page_number = LastPage) => pc' = "finalize"]_vars

C8_Witness == exc = "ValueError" /\ pc = "items" /\ remaining >= 1

\* C9: is_valid_title admits a title exactly when every whitespace-delimited
\* keyword of the lower-cased term is a whole whitespace-delimited token of
\* the lower-cased title.
C9_WholeTokens ==
    u_pc = "returned" =>
       (u_out <=> Tokens(Lower(u_term)) \subseteq Tokens(Lower(u_title)))

C9_Witness ==
    /\ u_pc = "returned"
    /\ u_term = <<"r", " ", "5">>
    /\ u_title = <<"R", "5">>
    /\ ~u_out

\* the pages requested for the current term are 1, 2, ... in order, and the
\* term is finalized only after page 13
PagesInOrder ==
    pc \in {"fetch", "items", "finalize", "crashed"} =>
       /\ Len(requested) <= LastPage
       /\ \A i \in 1..Len(requested) : requested[i] = i
       /\ pc = "fetch" => page_number = Len(requested) + 1
       /\ pc = "items" => page_number = Len(requested)
       /\ pc = "finalize" => Len(requested) = LastPage

\* C10: pages 1..13 are requested in order, each once, the term finishes
\* only after page 13, and a page without the results container adds no
\* observation and is followed by the next page.
C10_Paging ==
    /\ []PagesInOrder
    /\ [][(pc = "fetch" /\ pc' # "crashed" /\ listings_section' = "None") =>
             /\ month_price_dict' = month_price_dict
             /\ nAdmitted' = nAdmitted
             /\ page_number < LastPage =>
                   (pc' = "fetch" /\ page_number' = page_number + 1)
             /\ page_number = LastPage => pc' = "finalize"]_vars
    /\ [][summary_data' # summary_data => Len(requested) = LastPage]_vars

C10_Witness ==
    /\ pc = "finalize"
    /\ listings_section = "None"
    /\ Len(requested) = LastPage
    /\ nAdmitted > 0

====
